---- MODULE Spec2Model ----
(***************************************************************************)
(* Model of the synthetic metrics generator (metrics-gen/metrics_gen.py)   *)
(* and of the query benchmark runner (bench/query_bench.py).               *)
(*                                                                         *)
(* The specifications share the variables below:                          *)
(*   Spec        the generator process: the ingest thread (readiness wait, *)
(*               schema setup, ticks) and the exposition (scrape) thread;  *)
(*   SpecSeries  generate_series enumerated under a wide range of counts;  *)
(*   SpecBench   the benchmark run over the QUERIES catalogue;             *)
(*   SpecSetup   ensure_index called repeatedly against one backend;       *)
(*   SpecValue, SpecRequest, SpecDuration, SpecSummarize                   *)
(*               the sample value, the requests made of one definition,    *)
(*               parse_duration and summarize, each taken alone.           *)
(* Each specification leaves the variables of the others at their idle    *)
(* values.                                                                 *)
(***************************************************************************)
EXTENDS Integers, Sequences, FiniteSets, TLC

VARIABLES
    \* ---- generator -------------------------------------------------------
    cfg,          \* [NUM_INSTANCES, NUM_STATUS_CODES, NUM_METHODS] read from the environment
    pc,           \* position of the ingest thread
    waited,       \* time.time() - start_time inside wait_for_elasticsearch (seconds)
    readySeen,    \* history: some health poll answered 200 with status green or yellow
    attempt,      \* loop variable of the setup retry loop
    ensureLog,    \* the results of the ensure_index calls, in call order
    setupSleeps,  \* number of 2 s sleeps taken in the setup retry loop
    now,          \* wall clock of the ingest phase (seconds since the first tick)
    tick,         \* number of ticks started
    ts,           \* timestamp of the current tick
    pos,          \* number of Label Sets the current build has consumed
    lines,        \* local list `lines` of build_bulk_payload (empty outside the call)
    body,         \* local `body` of ingest_loop: the bulk body of the current tick
    gauges,       \* the http_qps gauge table: Label Set -> [value, tick that set it]
    gaugeSets,    \* per Label Set, the number of .set() calls in the current tick
    first_batch,  \* local flag of ingest_loop
    postLog,      \* per bulk POST issued: its tick, its timestamp and the status
                  \* answered (0: the POST raised, -1: not answered yet)
    verifyRuns,   \* number of post-write verifications run
    verifyOutcome, \* how the verification of this tick ended, "none" without one
    scraped,      \* the last scrape: per Label Set exposed, the tick whose value it read
    \* ---- generate_series alone -------------------------------------------
    runs,         \* the sequences yielded by successive full enumerations
    \* ---- benchmark runner -------------------------------------------------
    bpc,          \* position of the benchmark's single thread
    qi,           \* index into QUERIES of the definition the for loop is at
    run,          \* loop variable i of the running bench_prom / bench_esql
    prom_lats,    \* latencies of bench_prom: the running call's, then its return value
    prom_result,  \* first_result of bench_prom, likewise
    es_lats,      \* latencies of bench_esql, likewise
    es_result,    \* first_result of bench_esql, likewise
    req,          \* the last request issued
    lastResp,     \* the last response received: [status, ms]
    outstanding,  \* requests issued and not yet answered
    calls,        \* per definition, requests issued to either backend
    summaries,    \* history: the summaries reported, in order: [query, backend, n]
    printed,      \* the last summary line printed: [name, p50x2, p95]
    \* ---- functions taken alone --------------------------------------------
    es,           \* the document backend's index state: [template, stream, index]
    setupCalls,   \* history: the ensure_index calls made, [before, fault, answer, ok, after]
    lat_arg,      \* argument of a summarize call
    reported,     \* the line that call printed: [name, p50x2, p95]
    dur_arg,      \* argument of a parse_duration call, a sequence of characters
    parsed,       \* what that call gave: [ok, seconds], ok FALSE where it raised
    value_arg,    \* one pass of the loop body of build_bulk_payload: [labels, noise]
    value_out,    \* the sample value that pass computed
    query_arg,    \* argument of a bench_prom and a bench_esql call
    prom_req,     \* the request bench_prom makes of it: [ok, req]
    es_req        \* the request bench_esql makes of it

genVars == <<cfg, pc, waited, readySeen, attempt, ensureLog,
             setupSleeps, now, tick, ts, pos, lines, body, gauges, gaugeSets,
             first_batch, postLog, verifyRuns, verifyOutcome, scraped>>
seriesVars == <<runs>>
benchVars == <<bpc, qi, run, prom_lats, prom_result, es_lats, es_result, req, lastResp,
               outstanding, calls, summaries, printed>>
setupEnvVars == <<es, setupCalls>>
summarizeVars == <<lat_arg, reported>>
durationVars == <<dur_arg, parsed>>
valueVars == <<value_arg, value_out>>
requestVars == <<query_arg, prom_req, es_req>>
unitVars == <<setupEnvVars, summarizeVars, durationVars, valueVars, requestVars>>
vars == <<genVars, seriesVars, benchVars, unitVars>>

(***************************************************************************)
(* Bounds of the model.                                                    *)
(***************************************************************************)
MaxSeries == 2       \* Spec: most Label Sets one tick enumerates
MaxTicks == 2        \* Spec: ticks modelled before the loop is cut off
MaxInstances == 2    \* SpecSeries: largest NUM_INSTANCES
MaxCount == 6        \* SpecSeries: largest NUM_STATUS_CODES / NUM_METHODS
MaxEnumerations == 2 \* SpecSeries: full enumerations of generate_series
MaxSetupCalls == 3   \* SpecSetup: ensure_index calls against one backend
MaxSample == 5       \* SpecSummarize: longest latency sequence summarized
MaxDuration == 2     \* SpecDuration: longest duration string parsed

(***************************************************************************)
(* Program constants.                                                      *)
(***************************************************************************)
TICK_SECONDS == 1
max_wait == 60
check_interval == 2
max_retries == 3
ALL_STATUS_CODES == <<"200", "500", "400", "404", "502">>
ALL_METHODS == <<"GET", "POST">>

Range(f) == {f[i] : i \in DOMAIN f}

Min(a, b) == IF a < b THEN a ELSE b
Max(a, b) == IF a > b THEN a ELSE b

(***************************************************************************)
(* lst[:n] of Python: a negative n counts from the end, and both ends are  *)
(* clamped to the list.                                                    *)
(***************************************************************************)
SliceTo(lst, n) ==
    SubSeq(lst, 1, IF n < 0 THEN Max(Len(lst) + n, 0) ELSE Min(n, Len(lst)))

STATUS_CODES_Untruncated(c) == ALL_STATUS_CODES

STATUS_CODES(c) == SliceTo(ALL_STATUS_CODES, c.NUM_STATUS_CODES)
METHODS(c) == SliceTo(ALL_METHODS, c.NUM_METHODS)

(***************************************************************************)
(* f"inst-{i:05d}": the decimal digits of i, left-padded with zeros to     *)
(* five characters (longer numbers are not truncated).                     *)
(***************************************************************************)
RECURSIVE ZeroPad(_, _)
ZeroPad(s, width) == IF Len(s) >= width THEN s ELSE ZeroPad("0" \o s, width)

InstanceName(i) == "inst-" \o ZeroPad(ToString(i), 5)

Labels(instance, sc, m) ==
    [job |-> "demo", instance |-> instance, status_code |-> sc, method |-> m]

RECURSIVE Flatten(_)
Flatten(ss) == IF ss = <<>> THEN <<>> ELSE Head(ss) \o Flatten(Tail(ss))

(***************************************************************************)
(* generate_series: the three nested for loops, innermost first.  range(n) *)
(* is 0..n-1, empty for n <= 0.                                            *)
(***************************************************************************)
MethodLoop(c, instance, sc) ==
    [k \in 1..Len(METHODS(c)) |-> Labels(instance, sc, METHODS(c)[k])]

StatusLoop(c, instance) ==
    Flatten([j \in 1..Len(STATUS_CODES(c)) |->
                MethodLoop(c, instance, STATUS_CODES(c)[j])])

generate_series(c) ==
    Flatten([n \in 1..Max(c.NUM_INSTANCES, 0) |->
                StatusLoop(c, InstanceName(n - 1))])

(***************************************************************************)
(* build_bulk_payload, one Label Set at a time.  Values are in QPS units;  *)
(* factor 0.05 is 5 per cent.  random.uniform(-10, 10) is a draw from      *)
(* NoiseDraws.                                                             *)
(***************************************************************************)
NoiseDraws == {-10, 10}

Factor100_AlwaysFull(labels) == 100

Factor100(labels) == IF labels.status_code = "200" THEN 100 ELSE 5

ComputeValue(labels, noise) == Max(0, (100 * Factor100(labels)) \div 100 + noise)

\* the value handed to http_qps.labels(...).set(value): the floored one
GaugeValue_Unfloored(labels, noise) == (100 * Factor100(labels)) \div 100 + noise

GaugeValue(labels, noise) == ComputeValue(labels, noise)

\* json.dumps(action), json.dumps(doc), and the separator of "\n".join
ActionLine == [kind |-> "action"]
DocLine(timestamp_iso, value, labels) ==
    [kind |-> "doc", timestamp |-> timestamp_iso, http_requests_qps |-> value,
     job |-> labels.job, instance |-> labels.instance,
     status_code |-> labels.status_code, method |-> labels.method]
NL == [kind |-> "nl"]

\* the two lines.append calls of one loop iteration
AppendPair(ls, timestamp_iso, value, labels) ==
    ls \o <<ActionLine, DocLine(timestamp_iso, value, labels)>>

RECURSIVE Join(_)
Join(ls) ==
    IF ls = <<>> THEN <<>>
    ELSE IF Len(ls) = 1 THEN <<ls[1]>>
    ELSE <<ls[1], NL>> \o Join(Tail(ls))

\* return "\n".join(lines) + "\n"
BulkBody_NoTrailing(ls) == Join(ls)

BulkBody(ls) == Join(ls) \o <<NL>>

\* .labels(...).set(value): the child of that Label Set is created on first
\* use and its value replaced; t records the tick of the call
SetGauge_AfterAcceptedWrite(g, labels, value, t) == g

SetGauge(g, labels, value, t) ==
    [l \in DOMAIN g \cup {labels} |->
        IF l = labels THEN [value |-> value, tick |-> t] ELSE g[l]]

CountSet(n, labels) ==
    [l \in DOMAIN n \cup {labels} |-> IF l = labels THEN (IF l \in DOMAIN n THEN n[l] ELSE 0) + 1 ELSE n[l]]

(***************************************************************************)
(* wait_for_elasticsearch.  A health response is [code, status]; code 0    *)
(* stands for a request that raised (connection refused, timeout).         *)
(***************************************************************************)
HealthResponses ==
    {[code |-> 0, status |-> "none"], [code |-> 503, status |-> "none"],
     [code |-> 200, status |-> "red"], [code |-> 200, status |-> "yellow"],
     [code |-> 200, status |-> "green"]}

PollSeconds == {0, 5}

\* what the backend said, whatever the generator makes of it
ReportsReady(resp) == resp.code = 200 /\ resp.status \in {"green", "yellow"}

IsReady_AnyStatus(resp) == resp.code = 200

IsReady(resp) == resp.code = 200 /\ resp.status \in {"green", "yellow"}

KeepWaiting(elapsed) == elapsed < max_wait

(***************************************************************************)
(* ensure_index against a backend whose index state is e: whether a        *)
(* template, the data stream, or a regular index of the same name exist.   *)
(* fault names the request that fails in this call, if any.                *)
(***************************************************************************)
EsStates ==
    {e \in [template : BOOLEAN, stream : BOOLEAN, index : BOOLEAN] :
        ~(e.stream /\ e.index) /\ (e.stream => e.template)}

Faults == {"none", "cleanup_exc", "template_status", "template_exc",
           "verify_status", "verify_exc", "stream_status", "stream_exc"}

\* lines 65-77: a regular index of the stream's name is deleted; any error is passed over
DeleteRegularIndex(e, fault) ==
    IF fault # "cleanup_exc" /\ e.index /\ ~e.stream
    THEN [e EXCEPT !.index = FALSE] ELSE e

\* lines 122-131: what the PUT of the data stream answers, "none" when the
\* call does not get that far
StreamCreateAnswer(e, fault) ==
    LET e1 == DeleteRegularIndex(e, fault) IN
    IF fault \in {"template_status", "template_exc", "verify_status", "verify_exc"}
    THEN "none"
    ELSE IF fault = "stream_exc" THEN "raised"
    ELSE IF fault = "stream_status" \/ e1.index THEN "other_status"
    ELSE IF e1.stream THEN "already_exists"
    ELSE "created"

ensure_index_ExistingIsFailure(e, fault) ==
    LET e1 == DeleteRegularIndex(e, fault) IN
    IF fault \in {"template_status", "template_exc"}
    THEN [ok |-> FALSE, es |-> e1]
    ELSE LET e2 == [e1 EXCEPT !.template = TRUE] IN
         IF fault \in {"verify_status", "verify_exc", "stream_exc"}
         THEN [ok |-> FALSE, es |-> e2]
         ELSE IF e2.stream \/ e2.index \/ fault = "stream_status"
              THEN [ok |-> FALSE, es |-> e2]
              ELSE [ok |-> TRUE, es |-> [e2 EXCEPT !.stream = TRUE]]

ensure_index(e, fault) ==
    LET e1 == DeleteRegularIndex(e, fault) IN
    IF fault \in {"template_status", "template_exc"}
    THEN [ok |-> FALSE, es |-> e1]
    ELSE LET e2 == [e1 EXCEPT !.template = TRUE] IN
         IF fault \in {"verify_status", "verify_exc", "stream_exc"}
         THEN [ok |-> FALSE, es |-> e2]
         ELSE IF e2.stream \/ e2.index \/ fault = "stream_status"
              \* already exists, or another error status: printed, then passed over
              THEN [ok |-> TRUE, es |-> e2]
              ELSE [ok |-> TRUE, es |-> [e2 EXCEPT !.stream = TRUE]]

(***************************************************************************)
(* The generator process.                                                  *)
(***************************************************************************)
Configs ==
    {c \in [NUM_INSTANCES : 0..MaxSeries, NUM_STATUS_CODES : 0..MaxSeries,
            NUM_METHODS : 0..(Len(ALL_METHODS) + 1)] :
        Len(generate_series(c)) <= MaxSeries}

NoGauges == [l \in {} |-> 0]

SeriesIdle == runs = <<>>

NoResult == [backend |-> "none", run |-> -1]
NoRequest == [backend |-> "none", name |-> "none", kind |-> "none", timeout |-> 0,
              span |-> 0, step |-> 0]
NoResponse == [status |-> -1, ms |-> 0]
NoLine == [name |-> "none", p50x2 |-> 0, p95 |-> 0]

BenchIdle ==
    /\ bpc = "idle"
    /\ qi = 0
    /\ run = 0
    /\ prom_lats = <<>>
    /\ prom_result = NoResult
    /\ es_lats = <<>>
    /\ es_result = NoResult
    /\ req = NoRequest
    /\ lastResp = NoResponse
    /\ outstanding = 0
    /\ calls = <<>>
    /\ summaries = <<>>
    /\ printed = NoLine

NoParse == [ok |-> FALSE, seconds |-> -1]

SetupIdle ==
    /\ es = [template |-> FALSE, stream |-> FALSE, index |-> FALSE]
    /\ setupCalls = <<>>

SummarizeIdle == lat_arg = <<>> /\ reported = NoLine

DurationIdle == dur_arg = <<>> /\ parsed = NoParse

NoValue == -1

ValueIdle ==
    /\ value_arg = [labels |-> [job |-> "none", instance |-> "none",
                                status_code |-> "none", method |-> "none"],
                    noise |-> 0]
    /\ value_out = NoValue

RequestIdle ==
    /\ query_arg = [name |-> "none"]
    /\ prom_req = [ok |-> FALSE, req |-> NoRequest]
    /\ es_req = NoRequest

UnitIdle == SetupIdle /\ SummarizeIdle /\ DurationIdle /\ ValueIdle /\ RequestIdle

Init ==
    /\ cfg \in Configs
    /\ pc = "wait_check"
    /\ waited = 0
    /\ readySeen = FALSE
    /\ attempt = 0
    /\ ensureLog = <<>>
    /\ setupSleeps = 0
    /\ now = 0
    /\ tick = 0
    /\ ts = 0
    /\ pos = 0
    /\ lines = <<>>
    /\ body = <<>>
    /\ gauges = NoGauges
    /\ gaugeSets = NoGauges
    /\ first_batch = TRUE
    /\ postLog = <<>>
    /\ verifyRuns = 0
    /\ verifyOutcome = "none"
    /\ scraped = NoGauges
    /\ SeriesIdle
    /\ BenchIdle
    /\ UnitIdle

waitVars == <<waited, readySeen>>
setupVars == <<attempt, ensureLog, setupSleeps>>
tickVars == <<now, tick, ts, pos, lines, body, gauges, gaugeSets, first_batch,
              postLog, verifyRuns, verifyOutcome>>

\* line 36: the loop condition; a poll is issued, or the wait gives up and
\* ingest_loop returns (lines 51-52, 190-192)
WaitCheck ==
    /\ pc = "wait_check"
    /\ pc' = IF KeepWaiting(waited) THEN "wait_poll" ELSE "returned"
    /\ UNCHANGED <<cfg, waitVars, setupVars, tickVars, scraped, runs, benchVars, unitVars>>

\* lines 37-49: the response of the poll; ready ends the wait (its locals
\* go out of scope), anything else sleeps check_interval and loops
WaitPoll ==
    /\ pc = "wait_poll"
    /\ \E resp \in HealthResponses, d \in PollSeconds :
         /\ readySeen' = (readySeen \/ ReportsReady(resp))
         /\ IF IsReady(resp)
            THEN /\ pc' = "setup"
                 /\ waited' = 0
            ELSE /\ pc' = "wait_check"
                 /\ waited' = waited + d + check_interval
    /\ UNCHANGED <<cfg, setupVars, tickVars, scraped, runs, benchVars, unitVars>>

\* what follows one ensure_index call in the retry loop (lines 196-203)
AfterEnsure_RetryAfterLast(ok, att) ==
    IF ok THEN "tick_start" ELSE "setup_sleep"

AfterEnsure_FatalWhenExhausted(ok, att) ==
    IF ok THEN "tick_start"
    ELSE IF att < max_retries - 1 THEN "setup_sleep"
    ELSE "returned"

AfterEnsure(ok, att) ==
    IF ok THEN "tick_start"
    ELSE IF att < max_retries - 1 THEN "setup_sleep"
    ELSE "tick_start"

\* lines 196-203, one iteration: the call of ensure_index and what follows it
EnsureIndex ==
    /\ pc = "setup"
    /\ \E e \in EsStates, fault \in Faults :
         LET r == ensure_index(e, fault) IN
         /\ ensureLog' = Append(ensureLog, r.ok)
         /\ pc' = AfterEnsure(r.ok, attempt)
    /\ UNCHANGED <<cfg, waitVars, attempt, setupSleeps, tickVars, scraped, runs, benchVars, unitVars>>

\* line 201, and the next value of the loop variable
SetupSleep ==
    /\ pc = "setup_sleep"
    /\ setupSleeps' = setupSleeps + 1
    /\ attempt' = attempt + 1
    /\ pc' = "setup"
    /\ UNCHANGED <<cfg, waitVars, ensureLog, tickVars, scraped, runs, benchVars, unitVars>>

\* line 214 and the entry of build_bulk_payload (line 156)
TickStart ==
    /\ pc = "tick_start"
    /\ tick < MaxTicks
    /\ tick' = tick + 1
    /\ ts' = now
    /\ pos' = 0
    /\ lines' = <<>>
    /\ body' = <<>>
    /\ gaugeSets' = NoGauges
    /\ pc' = "build"
    /\ UNCHANGED <<cfg, waitVars, setupVars, now, gauges, first_batch, postLog,
                   verifyRuns, verifyOutcome, scraped, runs, benchVars, unitVars>>

\* lines 157-182: one iteration of the loop over generate_series()
BuildStep ==
    /\ pc = "build"
    /\ pos < Len(generate_series(cfg))
    /\ \E noise \in NoiseDraws :
         LET labels == generate_series(cfg)[pos + 1]
             value == ComputeValue(labels, noise)
         IN /\ gauges' = SetGauge(gauges, labels, GaugeValue(labels, noise), tick)
            /\ gaugeSets' = CountSet(gaugeSets, labels)
            /\ lines' = AppendPair(lines, ts, value, labels)
    /\ pos' = pos + 1
    /\ UNCHANGED <<cfg, pc, waitVars, setupVars, now, tick, ts, body, first_batch,
                   postLog, verifyRuns, verifyOutcome, scraped, runs, benchVars, unitVars>>

\* line 185 and lines 217-222: the body is joined and the bulk POST issued
PostBulk ==
    /\ pc = "build"
    /\ pos = Len(generate_series(cfg))
    /\ body' = BulkBody(lines)
    /\ lines' = <<>>
    /\ postLog' = Append(postLog, [tick |-> tick, ts |-> ts, code |-> -1])
    /\ pc' = "post_wait"
    /\ UNCHANGED <<cfg, waitVars, setupVars, now, tick, ts, pos, gauges,
                   gaugeSets, first_batch, verifyRuns, verifyOutcome, scraped, runs, benchVars, unitVars>>

BulkResponses == {0, 200, 500}
PostSeconds == {0, 2}

\* lines 223-246: what follows the bulk response (0: the POST raised)
AfterBulk_RaiseEndsLoop(code, first) ==
    IF code = 0 THEN "returned"
    ELSE IF code >= 300 THEN "tick_sleep"
    ELSE IF first THEN "verify"
    ELSE "tick_sleep"

AfterBulk_ErrorRedoesSetup(code, first) ==
    IF code = 0 THEN "tick_sleep"
    ELSE IF code >= 300 THEN "setup"
    ELSE IF first THEN "verify"
    ELSE "tick_sleep"

AfterBulk_VerifyAfterEveryWrite(code, first) ==
    IF code = 0 THEN "verify"
    ELSE IF code >= 300 THEN "verify"
    ELSE "verify"

AfterBulk(code, first) ==
    IF code = 0 THEN "tick_sleep"
    ELSE IF code >= 300 THEN "tick_sleep"
    ELSE IF first THEN "verify"
    ELSE "tick_sleep"

BulkResponse ==
    /\ pc = "post_wait"
    /\ \E code \in BulkResponses, d \in PostSeconds :
         /\ postLog' = [postLog EXCEPT ![Len(postLog)].code = code]
         /\ now' = now + d
         /\ pc' = AfterBulk(code, first_batch)
         /\ first_batch' = IF pc' = "verify" THEN FALSE ELSE first_batch
    /\ UNCHANGED <<cfg, waitVars, setupVars, tick, ts, pos, lines, body, gauges,
                   gaugeSets, verifyRuns, verifyOutcome, scraped, runs, benchVars, unitVars>>

\* lines 228-244: refresh and data stream check; every outcome (an error
\* status, an exception, a warning) only prints
VerifyOutcomes == {"ready", "no_indices", "stream_status", "refresh_status", "exception"}

Verify ==
    /\ pc = "verify"
    /\ \E o \in VerifyOutcomes :
         /\ verifyRuns' = verifyRuns + 1
         /\ verifyOutcome' = o
    /\ pc' = "tick_sleep"
    /\ UNCHANGED <<cfg, waitVars, setupVars, now, tick, ts, pos, lines, body,
                   gauges, gaugeSets, first_batch, postLog, scraped, runs, benchVars, unitVars>>

TickSleep_FixedRate ==
    /\ pc = "tick_sleep"
    /\ now' = Max(now, ts + TICK_SECONDS)
    /\ pc' = "tick_start"
    /\ verifyOutcome' = "none"
    /\ UNCHANGED <<cfg, waitVars, setupVars, tick, ts, pos, lines, body, gauges,
                   gaugeSets, first_batch, postLog, verifyRuns, scraped, runs, benchVars,
                   unitVars>>

\* line 247
TickSleep ==
    /\ pc = "tick_sleep"
    /\ now' = now + TICK_SECONDS
    /\ pc' = "tick_start"
    /\ verifyOutcome' = "none"
    /\ UNCHANGED <<cfg, waitVars, setupVars, tick, ts, pos, lines, body, gauges,
                   gaugeSets, first_batch, postLog, verifyRuns, scraped, runs, benchVars,
                   unitVars>>

\* the exposition server (line 252) answers a pull with the table as it is
Exposed(g) == [l \in DOMAIN g |-> g[l].tick]

Scrape ==
    /\ scraped' = Exposed(gauges)
    /\ scraped' # scraped
    /\ UNCHANGED <<cfg, pc, waitVars, setupVars, tickVars, runs, benchVars, unitVars>>

IngestStep ==
    \/ WaitCheck
    \/ WaitPoll
    \/ EnsureIndex
    \/ SetupSleep
    \/ TickStart
    \/ BuildStep
    \/ PostBulk
    \/ BulkResponse
    \/ Verify
    \/ TickSleep

Next == IngestStep \/ Scrape

Spec == Init /\ [][Next]_vars

\* a deployment with one instance, one status code and one method: one Label
\* Set per tick
InitFair ==
    /\ Init
    /\ cfg = [NUM_INSTANCES |-> 1, NUM_STATUS_CODES |-> 1, NUM_METHODS |-> 1]

\* the ingest thread is scheduled, every request it makes is bounded by a
\* timeout and every sleep ends: a step it can take is eventually taken
SpecFair == InitFair /\ [][Next]_vars /\ WF_vars(IngestStep)

(***************************************************************************)
(* generate_series alone: list(generate_series()) taken repeatedly under   *)
(* counts that reach past the fixed lists.                                 *)
(***************************************************************************)
SeriesConfigs ==
    [NUM_INSTANCES : 0..MaxInstances, NUM_STATUS_CODES : 0..MaxCount,
     NUM_METHODS : 0..MaxCount]

GenIdle ==
    /\ pc = "idle"
    /\ waited = 0
    /\ readySeen = FALSE
    /\ attempt = 0
    /\ ensureLog = <<>>
    /\ setupSleeps = 0
    /\ now = 0
    /\ tick = 0
    /\ ts = 0
    /\ pos = 0
    /\ lines = <<>>
    /\ body = <<>>
    /\ gauges = NoGauges
    /\ gaugeSets = NoGauges
    /\ first_batch = TRUE
    /\ postLog = <<>>
    /\ verifyRuns = 0
    /\ verifyOutcome = "none"
    /\ scraped = NoGauges

InitSeries ==
    /\ cfg \in SeriesConfigs
    /\ runs = <<>>
    /\ GenIdle
    /\ BenchIdle
    /\ UnitIdle

Enumerate ==
    /\ Len(runs) < MaxEnumerations
    /\ runs' = Append(runs, generate_series(cfg))
    /\ UNCHANGED <<cfg, pc, waitVars, setupVars, tickVars, scraped, benchVars, unitVars>>

NextSeries == Enumerate

SpecSeries == InitSeries /\ [][NextSeries]_vars

(***************************************************************************)
(* The sample value alone: one pass of the loop body of                    *)
(* build_bulk_payload for any Label Set of the full lists and any whole    *)
(* noise draw of random.uniform(-10, 10).                                  *)
(***************************************************************************)
AllLabelSets ==
    Range(generate_series([NUM_INSTANCES |-> 1,
                           NUM_STATUS_CODES |-> Len(ALL_STATUS_CODES),
                           NUM_METHODS |-> Len(ALL_METHODS)]))

NoiseRange == -10..10

InitValue ==
    /\ value_arg \in [labels : AllLabelSets, noise : NoiseRange]
    /\ value_out = NoValue
    /\ cfg = [NUM_INSTANCES |-> 0, NUM_STATUS_CODES |-> 0, NUM_METHODS |-> 0]
    /\ GenIdle
    /\ SeriesIdle
    /\ BenchIdle
    /\ SetupIdle
    /\ SummarizeIdle
    /\ DurationIdle
    /\ RequestIdle

ComputeCall ==
    /\ value_out = NoValue
    /\ value_out' = ComputeValue(value_arg.labels, value_arg.noise)
    /\ UNCHANGED <<value_arg, genVars, seriesVars, benchVars, setupEnvVars, summarizeVars,
                   durationVars, requestVars>>

NextValue == ComputeCall

SpecValue == InitValue /\ [][NextValue]_vars

(***************************************************************************)
(* ensure_index alone: called again and again against one backend, whose   *)
(* index state each call finds as the call before left it.                 *)
(***************************************************************************)
InitSetup ==
    /\ es \in EsStates
    /\ setupCalls = <<>>
    /\ cfg = [NUM_INSTANCES |-> 0, NUM_STATUS_CODES |-> 0, NUM_METHODS |-> 0]
    /\ GenIdle
    /\ SeriesIdle
    /\ BenchIdle
    /\ SummarizeIdle
    /\ DurationIdle
    /\ ValueIdle
    /\ RequestIdle

EnsureIndexCall ==
    /\ Len(setupCalls) < MaxSetupCalls
    /\ \E fault \in Faults :
         LET r == ensure_index(es, fault) IN
           /\ es' = r.es
           /\ setupCalls' = Append(setupCalls,
                 [before |-> es, fault |-> fault,
                  answer |-> StreamCreateAnswer(es, fault),
                  ok |-> r.ok, after |-> r.es])
    /\ UNCHANGED <<genVars, seriesVars, benchVars, summarizeVars, durationVars,
                   valueVars, requestVars>>

NextSetup == EnsureIndexCall

SpecSetup == InitSetup /\ [][NextSetup]_vars

(***************************************************************************)
(* The benchmark runner (bench/query_bench.py).  Texts are sequences of    *)
(* characters where the code looks inside them (the duration strings).     *)
(***************************************************************************)
NUM_RUNS == 5

QUERIES ==
    << [name |-> "Q1_avg_status_code_1_host",
        promql |-> "promql_Q1", esql |-> "esql_Q1"],
       [name |-> "Q2_avg_status_code_100_hosts_wildcard", skip |-> FALSE,
        promql |-> "promql_Q2", range_duration |-> <<"1", "h">>,
        step |-> <<"5", "m">>, esql |-> "esql_Q2"],
       [name |-> "Q3_avg_no_filter_sorted", skip |-> FALSE,
        promql |-> "promql_Q3", range_duration |-> <<"1", "h">>,
        step |-> <<"5", "m">>, esql |-> "esql_Q3"],
       [name |-> "Q4_avg_status_code_4xx_5xx_wildcard", skip |-> TRUE,
        promql |-> "promql_Q4", range_duration |-> <<"4", "h">>,
        step |-> <<"5", "m">>, esql |-> "esql_Q4"] >>

Digits == <<"0", "1", "2", "3", "4", "5", "6", "7", "8", "9">>
IsDigit(ch) == ch \in Range(Digits)
DigitValue(ch) == (CHOOSE k \in 1..10 : Digits[k] = ch) - 1

RECURSIVE DigitsValue(_, _)
DigitsValue(chars, acc) ==
    IF chars = <<>> THEN acc
    ELSE DigitsValue(Tail(chars), 10 * acc + DigitValue(Head(chars)))

\* int(text): an optional sign and decimal digits; anything else raises
IntOf(chars) ==
    LET signed == chars # <<>> /\ Head(chars) \in {"+", "-"}
        digits == IF signed THEN Tail(chars) ELSE chars
    IN IF digits = <<>> \/ \E k \in 1..Len(digits) : ~IsDigit(digits[k])
       THEN [ok |-> FALSE, value |-> 0]
       ELSE [ok |-> TRUE,
             value |-> IF signed /\ Head(chars) = "-"
                       THEN 0 - DigitsValue(digits, 0) ELSE DigitsValue(digits, 0)]

\* str.lower() on the unit character
Lower(ch) ==
    CASE ch = "S" -> "s" [] ch = "M" -> "m" [] ch = "H" -> "h" [] ch = "D" -> "d"
      [] OTHER -> ch

UnitSeconds_HourAsMinute(unit) ==
    CASE unit = "s" -> 1 [] unit = "m" -> 60 [] unit = "h" -> 60
      [] unit = "d" -> 86400 [] OTHER -> 1

\* units.get(unit, 1)
UnitSeconds(unit) ==
    CASE unit = "s" -> 1 [] unit = "m" -> 60 [] unit = "h" -> 3600
      [] unit = "d" -> 86400 [] OTHER -> 1

\* parse_duration: [ok, seconds]; ok is FALSE where the code raises
parse_duration(duration_str) ==
    IF duration_str = <<>> THEN [ok |-> FALSE, seconds |-> 0]
    ELSE IF IsDigit(duration_str[Len(duration_str)])
    THEN LET n == IntOf(duration_str) IN [ok |-> n.ok, seconds |-> n.value]
    ELSE LET unit == Lower(duration_str[Len(duration_str)])
             value == IntOf(SubSeq(duration_str, 1, Len(duration_str) - 1))
         IN [ok |-> value.ok, seconds |-> value.value * UnitSeconds(unit)]

Skipped_Never(q) == FALSE

\* q.get("skip")
Skipped(q) == "skip" \in DOMAIN q /\ q.skip

\* lines 75-77 and 132
UseRange(q) == "range_duration" \in DOMAIN q /\ "step" \in DOMAIN q
PromTimeout(q) == IF UseRange(q) THEN 120 ELSE 15
EsTimeout_AlwaysShort(q) == 15
EsTimeout(q) == IF "range_duration" \in DOMAIN q THEN 120 ELSE 15

\* lines 80-97: the request of one bench_prom execution
PromRequest(q) ==
    IF UseRange(q)
    THEN LET span == parse_duration(q.range_duration)
             step == parse_duration(q.step)
         IN [ok |-> span.ok /\ step.ok,
             req |-> [backend |-> "prom", name |-> q.name, kind |-> "query_range",
                      timeout |-> PromTimeout(q), span |-> span.seconds,
                      step |-> step.seconds]]
    ELSE [ok |-> TRUE,
          req |-> [backend |-> "prom", name |-> q.name, kind |-> "query",
                   timeout |-> PromTimeout(q), span |-> 0, step |-> 0]]

\* lines 130-135
EsRequest(q) ==
    [backend |-> "es", name |-> q.name, kind |-> "_query", timeout |-> EsTimeout(q),
     span |-> 0, step |-> 0]

\* a response is a status (0: the request raised) after some milliseconds
BackendStatuses == {0, 200, 500}
LatencyDraws == {10, 20}

FirstResult_AnySuccess(first_result, backend, i, status) ==
    IF status = 200 THEN [backend |-> backend, run |-> i] ELSE first_result

\* lines 102-106 and 137-141: first_result after execution i
FirstResult(first_result, backend, i, status) ==
    IF status = 200 /\ i = 0 THEN [backend |-> backend, run |-> i] ELSE first_result

\* lines 107 and 142: latencies.append((t1 - t0) * 1000.0)
RecordLatency_OnlyOn200(latencies, status, ms) ==
    IF status = 200 THEN Append(latencies, ms) ELSE latencies

RecordLatency(latencies, status, ms) == Append(latencies, ms)

RECURSIVE Insert(_, _)
Insert(x, sorted) ==
    IF sorted = <<>> THEN <<x>>
    ELSE IF x <= Head(sorted) THEN <<x>> \o sorted
    ELSE <<Head(sorted)>> \o Insert(x, Tail(sorted))

RECURSIVE Sorted(_)
Sorted(seq) == IF seq = <<>> THEN <<>> ELSE Insert(Head(seq), Sorted(Tail(seq)))

\* statistics.median, doubled so that the mean of two middle values stays
\* an integer
Median2(seq) ==
    LET srt == Sorted(seq)
        n == Len(seq)
    IN IF n % 2 = 1 THEN 2 * srt[(n + 1) \div 2]
       ELSE srt[n \div 2] + srt[n \div 2 + 1]

Idx95_Ceiling(n) == (95 * (n - 1) + 99) \div 100

\* int(0.95 * (len - 1)), 0-based
Idx95(n) == (95 * (n - 1)) \div 100

\* summarize: the line it prints
summarize(name, latencies) ==
    [name |-> name, p50x2 |-> Median2(latencies),
     p95 |-> Sorted(latencies)[Idx95(Len(latencies)) + 1]]

InitBench ==
    /\ bpc = "main"
    /\ qi = 1
    /\ run = 0
    /\ prom_lats = <<>>
    /\ prom_result = NoResult
    /\ es_lats = <<>>
    /\ es_result = NoResult
    /\ req = NoRequest
    /\ lastResp = NoResponse
    /\ outstanding = 0
    /\ calls = [k \in 1..Len(QUERIES) |-> 0]
    /\ summaries = <<>>
    /\ printed = NoLine
    /\ cfg = [NUM_INSTANCES |-> 0, NUM_STATUS_CODES |-> 0, NUM_METHODS |-> 0]
    /\ GenIdle
    /\ SeriesIdle
    /\ UnitIdle

\* lines 239-246: the head of the for loop; a skipped definition is
\* announced and passed over, another one enters bench_prom
MainLoop ==
    /\ bpc = "main"
    /\ IF qi > Len(QUERIES)
       THEN /\ bpc' = "done"
            /\ UNCHANGED <<qi, run, prom_lats, prom_result>>
       ELSE IF Skipped(QUERIES[qi])
       THEN /\ qi' = qi + 1
            /\ UNCHANGED <<bpc, run, prom_lats, prom_result>>
       ELSE /\ bpc' = "prom_send"
            /\ run' = 0
            /\ prom_lats' = <<>>
            /\ prom_result' = NoResult
            /\ UNCHANGED qi
    /\ UNCHANGED <<es_lats, es_result, req, lastResp, outstanding, calls, summaries,
                   printed, genVars, seriesVars, unitVars>>

\* lines 80-100: the request of execution `run` goes out
PromSend ==
    /\ bpc = "prom_send"
    /\ LET r == PromRequest(QUERIES[qi]) IN
         IF r.ok
         THEN /\ req' = r.req
              /\ outstanding' = outstanding + 1
              /\ calls' = [calls EXCEPT ![qi] = @ + 1]
              /\ bpc' = "prom_wait"
         ELSE /\ bpc' = "aborted"
              /\ UNCHANGED <<req, outstanding, calls>>
    /\ UNCHANGED <<qi, run, prom_lats, prom_result, es_lats, es_result, lastResp,
                   summaries, printed, genVars, seriesVars, unitVars>>

\* lines 100-107: the response; a request that raises is caught nowhere,
\* neither in bench_prom nor in the main block
PromRecv ==
    /\ bpc = "prom_wait"
    /\ \E status \in BackendStatuses, ms \in LatencyDraws :
         /\ lastResp' = [status |-> status, ms |-> ms]
         /\ IF status = 0
            THEN /\ bpc' = "aborted"
                 /\ UNCHANGED <<prom_lats, prom_result>>
            ELSE /\ prom_result' = FirstResult(prom_result, "prom", run, status)
                 /\ prom_lats' = RecordLatency(prom_lats, status, ms)
                 /\ bpc' = "prom_sleep"
    /\ outstanding' = outstanding - 1
    /\ UNCHANGED <<qi, run, es_lats, es_result, req, calls, summaries, printed,
                   genVars, seriesVars, unitVars>>

PromSleep_EntersEsqlAtOnce ==
    /\ bpc = "prom_sleep"
    /\ run' = 0
    /\ bpc' = "es_send"
    /\ es_lats' = <<>>
    /\ es_result' = NoResult
    /\ UNCHANGED <<qi, prom_lats, prom_result, req, lastResp, outstanding, calls,
                   summaries, printed, genVars, seriesVars, unitVars>>

\* line 108, the next value of i; after the last execution bench_prom
\* returns and bench_esql is entered (lines 109, 128-133)
PromSleep ==
    /\ bpc = "prom_sleep"
    /\ IF run + 1 < NUM_RUNS
       THEN /\ run' = run + 1
            /\ bpc' = "prom_send"
            /\ UNCHANGED <<es_lats, es_result>>
       ELSE /\ run' = 0
            /\ bpc' = "es_send"
            /\ es_lats' = <<>>
            /\ es_result' = NoResult
    /\ UNCHANGED <<qi, prom_lats, prom_result, req, lastResp, outstanding, calls,
                   summaries, printed, genVars, seriesVars, unitVars>>

\* lines 134-135
EsSend ==
    /\ bpc = "es_send"
    /\ req' = EsRequest(QUERIES[qi])
    /\ outstanding' = outstanding + 1
    /\ calls' = [calls EXCEPT ![qi] = @ + 1]
    /\ bpc' = "es_wait"
    /\ UNCHANGED <<qi, run, prom_lats, prom_result, es_lats, es_result, lastResp,
                   summaries, printed, genVars, seriesVars, unitVars>>

\* lines 135-142
EsRecv ==
    /\ bpc = "es_wait"
    /\ \E status \in BackendStatuses, ms \in LatencyDraws :
         /\ lastResp' = [status |-> status, ms |-> ms]
         /\ IF status = 0
            THEN /\ bpc' = "aborted"
                 /\ UNCHANGED <<es_lats, es_result>>
            ELSE /\ es_result' = FirstResult(es_result, "es", run, status)
                 /\ es_lats' = RecordLatency(es_lats, status, ms)
                 /\ bpc' = "es_sleep"
    /\ outstanding' = outstanding - 1
    /\ UNCHANGED <<qi, run, prom_lats, prom_result, req, calls, summaries, printed,
                   genVars, seriesVars, unitVars>>

\* line 143, the next value of i; after the last execution bench_esql returns
EsSleep ==
    /\ bpc = "es_sleep"
    /\ run' = run + 1
    /\ bpc' = IF run + 1 < NUM_RUNS THEN "es_send" ELSE "summarize"
    /\ UNCHANGED <<qi, prom_lats, prom_result, es_lats, es_result, req, lastResp,
                   outstanding, calls, summaries, printed, genVars, seriesVars, unitVars>>

\* lines 257-258 (the Prometheus line, then the Elasticsearch line), and the
\* for loop moves on: nothing reads the iteration's latencies and results again
Summarize ==
    /\ bpc = "summarize"
    /\ summaries' = summaries \o
          <<[query |-> QUERIES[qi].name, backend |-> "Prometheus", n |-> Len(prom_lats)],
            [query |-> QUERIES[qi].name, backend |-> "Elasticsearch ES|QL",
             n |-> Len(es_lats)]>>
    /\ printed' = summarize("Elasticsearch ES|QL", es_lats)
    /\ qi' = qi + 1
    /\ bpc' = "main"
    /\ prom_lats' = <<>>
    /\ prom_result' = NoResult
    /\ es_lats' = <<>>
    /\ es_result' = NoResult
    /\ UNCHANGED <<run, req, lastResp, outstanding, calls, genVars, seriesVars, unitVars>>

NextBench ==
    \/ MainLoop
    \/ PromSend
    \/ PromRecv
    \/ PromSleep
    \/ EsSend
    \/ EsRecv
    \/ EsSleep
    \/ Summarize

SpecBench == InitBench /\ [][NextBench]_vars

(***************************************************************************)
(* The requests bench_prom and bench_esql make of one definition, for the  *)
(* catalogue's definitions and for definitions carrying any combination    *)
(* of the optional keys.                                                   *)
(***************************************************************************)
NoKey == [k \in {} |-> 0]
RangeChoices == {NoKey} \cup {[range_duration |-> r] : r \in {<<"1", "h">>, <<"4", "h">>, <<"9", "0">>}}
StepChoices == {NoKey} \cup {[step |-> st] : st \in {<<"5", "m">>, <<"1", "m">>, <<"3", "0">>}}
SkipChoices == {NoKey} \cup {[skip |-> b] : b \in BOOLEAN}

QueryShapes ==
    Range(QUERIES) \cup
    {[name |-> "Qx", promql |-> "promql_Qx", esql |-> "esql_Qx"] @@ r @@ st @@ sk :
        r \in RangeChoices, st \in StepChoices, sk \in SkipChoices}

InitRequest ==
    /\ query_arg \in QueryShapes
    /\ prom_req = [ok |-> FALSE, req |-> NoRequest]
    /\ es_req = NoRequest
    /\ cfg = [NUM_INSTANCES |-> 0, NUM_STATUS_CODES |-> 0, NUM_METHODS |-> 0]
    /\ GenIdle
    /\ SeriesIdle
    /\ BenchIdle
    /\ SetupIdle
    /\ SummarizeIdle
    /\ DurationIdle
    /\ ValueIdle

\* lines 75-100: what bench_prom sends for the definition
BenchPromRequest ==
    /\ prom_req.req = NoRequest
    /\ prom_req' = PromRequest(query_arg)
    /\ UNCHANGED <<query_arg, es_req, genVars, seriesVars, benchVars, setupEnvVars,
                   summarizeVars, durationVars, valueVars>>

\* lines 130-135: what bench_esql sends for the definition
BenchEsqlRequest ==
    /\ es_req = NoRequest
    /\ es_req' = EsRequest(query_arg)
    /\ UNCHANGED <<query_arg, prom_req, genVars, seriesVars, benchVars, setupEnvVars,
                   summarizeVars, durationVars, valueVars>>

NextRequest == BenchPromRequest \/ BenchEsqlRequest

SpecRequest == InitRequest /\ [][NextRequest]_vars

(***************************************************************************)
(* parse_duration alone, on short strings over digits, the four units, an  *)
(* upper-case unit and a letter that is no unit.                           *)
(***************************************************************************)
DurationChars == {"0", "1", "5", "9", "s", "m", "h", "d", "H", "x"}

InitDuration ==
    /\ dur_arg \in UNION {[1..n -> DurationChars] : n \in 1..MaxDuration}
    /\ parsed = NoParse
    /\ cfg = [NUM_INSTANCES |-> 0, NUM_STATUS_CODES |-> 0, NUM_METHODS |-> 0]
    /\ GenIdle
    /\ SeriesIdle
    /\ BenchIdle
    /\ SetupIdle
    /\ SummarizeIdle
    /\ ValueIdle
    /\ RequestIdle

ParseCall ==
    /\ parsed = NoParse
    /\ parsed' = parse_duration(dur_arg)
    /\ UNCHANGED <<dur_arg, genVars, seriesVars, benchVars, setupEnvVars, summarizeVars,
                   valueVars, requestVars>>

NextDuration == ParseCall

SpecDuration == InitDuration /\ [][NextDuration]_vars

(***************************************************************************)
(* summarize alone, on latency sequences in any order.                     *)
(***************************************************************************)
LatencyValues == {10, 20, 30, 40, 50}

InitSummarize ==
    /\ lat_arg \in UNION {[1..n -> LatencyValues] : n \in 1..MaxSample}
    /\ reported = NoLine
    /\ cfg = [NUM_INSTANCES |-> 0, NUM_STATUS_CODES |-> 0, NUM_METHODS |-> 0]
    /\ GenIdle
    /\ SeriesIdle
    /\ BenchIdle
    /\ SetupIdle
    /\ DurationIdle
    /\ ValueIdle
    /\ RequestIdle

SummarizeCall ==
    /\ reported = NoLine
    /\ reported' = summarize("Prometheus", lat_arg)
    /\ UNCHANGED <<lat_arg, genVars, seriesVars, benchVars, setupEnvVars, durationVars,
                   valueVars, requestVars>>

NextSummarize == SummarizeCall

SpecSummarize == InitSummarize /\ [][NextSummarize]_vars

(***************************************************************************)
(* Properties.                                                             *)
(***************************************************************************)
\* the lines of a body as a line reader sees them: every newline ends a
\* line, and text after the last newline is a last line
RECURSIVE SplitLines(_, _)
SplitLines(b, cur) ==
    IF b = <<>> THEN (IF cur = <<>> THEN <<>> ELSE <<cur>>)
    ELSE IF Head(b).kind = "nl" THEN <<cur>> \o SplitLines(Tail(b), <<>>)
    ELSE SplitLines(Tail(b), Append(cur, Head(b)))

BodyLines(b) == SplitLines(b, <<>>)

IsDocLine(line) == Len(line) = 1 /\ line[1].kind = "doc"
IsActionLine(line) == Len(line) = 1 /\ line[1].kind = "action"

DocLabels(d) ==
    [job |-> d.job, instance |-> d.instance, status_code |-> d.status_code,
     method |-> d.method]

\* the current tick's body has been built and its POST issued
TickBuilt == pc \in {"post_wait", "verify", "tick_sleep"}

EndsWithOneNewline(b) ==
    /\ Len(b) >= 1
    /\ b[Len(b)].kind = "nl"
    /\ Len(b) >= 2 => b[Len(b) - 1].kind # "nl"

\* C1: in every tick each Label Set of generate_series has exactly one
\* create-action/document pair in the bulk body and exactly one gauge update;
\* the gauge holds the value of the Label Set's document, set in this tick.
C1_OnePairOneGaugeUpdate ==
    TickBuilt =>
        LET ls == BodyLines(body)
            series == Range(generate_series(cfg))
        IN /\ Cardinality({i \in 1..Len(ls) : IsActionLine(ls[i])}) = Cardinality(series)
           /\ Cardinality({i \in 1..Len(ls) : IsDocLine(ls[i])}) = Cardinality(series)
           /\ \A l \in series :
                LET docs == {i \in 1..Len(ls) :
                                IsDocLine(ls[i]) /\ DocLabels(ls[i][1]) = l}
                IN /\ Cardinality(docs) = 1
                   /\ l \in DOMAIN gaugeSets /\ gaugeSets[l] = 1
                   /\ l \in DOMAIN gauges /\ gauges[l].tick = tick
                   /\ \A i \in docs :
                        /\ i > 1 /\ IsActionLine(ls[i - 1])
                        /\ gauges[l].value = ls[i][1].http_requests_qps

\* a second tick over two Label Sets is complete, one of them floored at 0
C1_Witness ==
    /\ pc = "tick_sleep" /\ tick = 2
    /\ Len(generate_series(cfg)) = 2
    /\ \E l \in DOMAIN gauges : gauges[l].value = 0

\* the counts the fixed lists leave of the configured ones
EffectiveStatuses(c) == Min(c.NUM_STATUS_CODES, 5)
EffectiveMethods(c) == Min(c.NUM_METHODS, 2)

AllDistinct(seq) == \A a, b \in 1..Len(seq) : a # b => seq[a] # seq[b]

\* C2 (as amended): for non-negative counts one enumeration yields
\* NUM_INSTANCES x min(NUM_STATUS_CODES, 5) x min(NUM_METHODS, 2) Label
\* Sets, pairwise distinct, and every further enumeration yields the same
\* sequence.
C2_SeriesCountTruncated ==
    \A r \in 1..Len(runs) :
        /\ Len(runs[r]) =
              cfg.NUM_INSTANCES * EffectiveStatuses(cfg) * EffectiveMethods(cfg)
        /\ AllDistinct(runs[r])
        /\ runs[r] = runs[1]

\* C2 as stated: the number yielded is the product of the configured counts.
C2_SeriesCountConfigured ==
    \A r \in 1..Len(runs) :
        /\ Len(runs[r]) =
              cfg.NUM_INSTANCES * cfg.NUM_STATUS_CODES * cfg.NUM_METHODS
        /\ AllDistinct(runs[r])
        /\ runs[r] = runs[1]

\* two enumerations under counts larger than both lists
C2_Witness ==
    /\ Len(runs) = 2
    /\ cfg.NUM_INSTANCES = 2 /\ cfg.NUM_STATUS_CODES = 6 /\ cfg.NUM_METHODS = 3
    /\ Len(runs[2]) = 20

AlternatingPairs(ls, stamp) ==
    \A i \in 1..Len(ls) :
        IF i % 2 = 1 THEN IsActionLine(ls[i])
        ELSE IsDocLine(ls[i]) /\ ls[i][1].timestamp = stamp

\* C3 (as amended): with K = NUM_INSTANCES x min(NUM_STATUS_CODES, 5) x
\* min(NUM_METHODS, 2) Label Sets, the body of a tick ends with one newline;
\* for K > 0 it has exactly 2K lines, alternating a create-action and a
\* document whose @timestamp is the tick's timestamp; for K = 0 it is the
\* lone newline, which is one empty line.
C3_BodyLinesTruncated ==
    TickBuilt =>
        LET K == cfg.NUM_INSTANCES * EffectiveStatuses(cfg) * EffectiveMethods(cfg)
            ls == BodyLines(body)
        IN /\ EndsWithOneNewline(body)
           /\ IF K = 0 THEN ls = << <<>> >>
              ELSE Len(ls) = 2 * K /\ AlternatingPairs(ls, ts)

\* C3 as stated: 2 x the product of the configured counts, a count of zero
\* included.
C3_BodyLinesConfigured ==
    TickBuilt =>
        LET ls == BodyLines(body)
        IN /\ EndsWithOneNewline(body)
           /\ Len(ls) = 2 * (cfg.NUM_INSTANCES * cfg.NUM_STATUS_CODES * cfg.NUM_METHODS)
           /\ AlternatingPairs(ls, ts)

\* a body of four lines built in the second tick, at a timestamp other than 0
C3_Witness ==
    /\ TickBuilt /\ tick = 2 /\ ts > 0
    /\ cfg.NUM_INSTANCES = 2
    /\ Len(BodyLines(body)) = 4

(***************************************************************************)
(* The phases of the generator, by the position of the ingest thread.      *)
(***************************************************************************)
Waiting(p) == p \in {"wait_check", "wait_poll"}
SettingUp(p) == p \in {"setup", "setup_sleep"}
Ingesting(p) == p \in {"tick_start", "build", "post_wait", "verify", "tick_sleep"}
Exited(p) == p = "returned"

PhaseRank(p) ==
    IF Waiting(p) THEN 1 ELSE IF SettingUp(p) THEN 2 ELSE IF Ingesting(p) THEN 3 ELSE 4

BulkFailed(code) == code = 0 \/ code >= 300

\* a step that issues a health poll, calls ensure_index, issues a bulk POST
HealthPollIssued == pc' = "wait_poll" /\ pc # "wait_poll"
EnsureCalled == Len(ensureLog') > Len(ensureLog)
BulkIssued == Len(postLog') > Len(postLog)

\* C4: a bulk write that raises or answers a status >= 300 never ends the
\* loop: the loop sleeps the tick interval, every tick (below the modelled
\* bound) is followed by the next tick and its POST, and no tick is posted
\* twice: the POSTs are of successive ticks with growing timestamps.
C4_FailedWriteNeverEndsLoop ==
    /\ [][(pc = "post_wait" /\ pc' # "post_wait"
              /\ BulkFailed(postLog'[Len(postLog')].code))
            => (pc' = "tick_sleep" /\ ~BulkIssued)]_vars
    /\ [][pc = "tick_sleep" => (pc' \in {"tick_sleep", "tick_start"} /\ ~BulkIssued)]_vars
    /\ [](\A i \in 1..Len(postLog) :
             /\ postLog[i].tick = i
             /\ i > 1 => postLog[i].ts >= postLog[i - 1].ts + TICK_SECONDS)
    /\ \A k \in 1..(MaxTicks - 1) :
          /\ (tick = k) ~> (tick = k + 1)
          /\ (Len(postLog) = k) ~> (Len(postLog) = k + 1)

\* the first tick's POST raised and the second tick's POST is out
C4_Witness ==
    /\ pc = "post_wait"
    /\ Len(postLog) = 2
    /\ postLog[1].code = 0
    /\ postLog[2].ts > postLog[1].ts

\* C7: no ensure_index call and no bulk write comes before a health poll has
\* answered 200 with status green or yellow: until then the ingest thread
\* is still waiting (or has given up).
C7_NothingBeforeReady ==
    (\/ SettingUp(pc) \/ Ingesting(pc)
     \/ ensureLog # <<>> \/ postLog # <<>> \/ tick > 0) => readySeen

\* setup ran and a bulk write was issued, after a ready answer
C7_Witness ==
    /\ readySeen
    /\ Len(ensureLog) >= 1
    /\ Len(postLog) >= 1

\* C8: at most 3 ensure_index calls; a call follows only failed calls, so
\* only the last may have succeeded; one 2 s sleep lies between two calls
\* and none after the last; once the calls end the loop ticks, whether the
\* last call succeeded or all three failed.
C8_SetupRetriesBounded ==
    /\ Len(ensureLog) <= 3
    /\ \A i \in 1..(Len(ensureLog) - 1) : ~ensureLog[i]
    /\ pc = "setup" =>
          /\ setupSleeps = Len(ensureLog)
          /\ \A i \in 1..Len(ensureLog) : ~ensureLog[i]
    /\ pc = "setup_sleep" =>
          /\ Len(ensureLog) < 3
          /\ ~ensureLog[Len(ensureLog)]
          /\ setupSleeps = Len(ensureLog) - 1
    /\ Ingesting(pc) =>
          /\ Len(ensureLog) >= 1
          /\ setupSleeps = Len(ensureLog) - 1
          /\ ensureLog[Len(ensureLog)] \/ Len(ensureLog) = 3
    /\ ensureLog # <<>> => ~Exited(pc)

\* all three attempts failed, two sleeps were taken, and the loop ticks
C8_Witness ==
    /\ ensureLog = <<FALSE, FALSE, FALSE>>
    /\ setupSleeps = 2
    /\ pc = "build" /\ tick = 1

\* C9: ingest_loop has returned only when the readiness wait ran out without
\* a ready answer, and then no ensure_index call and no bulk write was made.
C9_ReturnsOnlyOnStartupTimeout ==
    Exited(pc) =>
        /\ ~readySeen
        /\ waited >= 60
        /\ ensureLog = <<>>
        /\ postLog = <<>>
        /\ tick = 0
        /\ gauges = NoGauges

\* the wait ran out and ingest_loop returned
C9_Witness == Exited(pc) /\ waited >= 60 /\ ~readySeen

\* C10: the phase only moves forward; setup is left only into ingesting and
\* ingesting is never left; after a bulk write no health poll and no
\* ensure_index call is made, after an ensure_index call no health poll.
C10_PhasesOnlyForward ==
    [][/\ PhaseRank(pc') >= PhaseRank(pc)
       /\ SettingUp(pc) => (SettingUp(pc') \/ Ingesting(pc'))
       /\ Ingesting(pc) => Ingesting(pc')
       /\ postLog # <<>> => (~HealthPollIssued /\ ~EnsureCalled)
       /\ ensureLog # <<>> => ~HealthPollIssued]_vars

\* the second tick follows a failed first write, with the phases behind it
C10_Witness ==
    /\ pc = "tick_sleep" /\ tick = 2
    /\ BulkFailed(postLog[1].code)
    /\ Len(ensureLog) = 2

(***************************************************************************)
(* Properties of the benchmark run.                                        *)
(***************************************************************************)
PromReturned == bpc \in {"es_send", "es_wait", "es_sleep", "summarize"}
EsReturned == bpc = "summarize"

\* C5 as stated: no failed call aborts the run, a network-level failure
\* included, and the latency of the failed call is recorded.
C5_FailedCallDoesNotAbort ==
    /\ bpc # "aborted"
    /\ (bpc = "prom_sleep" /\ lastResp.status # 200) =>
          (prom_lats # <<>> /\ prom_lats[Len(prom_lats)] = lastResp.ms)
    /\ (bpc = "es_sleep" /\ lastResp.status # 200) =>
          (es_lats # <<>> /\ es_lats[Len(es_lats)] = lastResp.ms)

\* C6: every response, 200 or not, appends its latency to the sequence of
\* the running bench call, in execution order, so that bench_prom and
\* bench_esql each return exactly NUM_RUNS latencies.
C6_EveryResponseRecorded ==
    /\ [](bpc \in {"prom_send", "prom_wait"} => Len(prom_lats) = run)
    /\ [](bpc \in {"es_send", "es_wait"} => Len(es_lats) = run)
    /\ [](PromReturned => Len(prom_lats) = NUM_RUNS)
    /\ [](EsReturned => Len(es_lats) = NUM_RUNS)
    /\ [](\A k \in 1..Len(summaries) : summaries[k].n = NUM_RUNS)
    /\ [][(bpc = "prom_wait" /\ bpc' = "prom_sleep")
             => prom_lats' = Append(prom_lats, lastResp'.ms)]_vars
    /\ [][(bpc = "es_wait" /\ bpc' = "es_sleep")
             => es_lats' = Append(es_lats, lastResp'.ms)]_vars

\* bench_esql is about to return five latencies, the last one of a 500
\* answer, after first executions that failed on both backends
C6_Witness ==
    /\ bpc = "es_sleep" /\ run = NUM_RUNS - 1
    /\ lastResp.status = 500
    /\ Len(es_lats) = NUM_RUNS /\ Len(prom_lats) = NUM_RUNS
    /\ es_result = NoResult /\ prom_result = NoResult

(***************************************************************************)
(* Properties of ensure_index.                                             *)
(***************************************************************************)
SameTarget(a, b) == a.template = b.template /\ a.stream = b.stream

\* C11 as stated: a call made after any call that returned success, its own
\* requests all answered as the backend's state has it, returns success and
\* leaves the template and the data stream as they were.
C11_AfterAnySuccessUnchanged ==
    \A k \in 2..Len(setupCalls) :
        (setupCalls[k - 1].ok /\ setupCalls[k].fault = "none")
            => (setupCalls[k].ok /\ SameTarget(setupCalls[k].after, setupCalls[k].before))

\* C11: a call that finds the template and is answered "already exists" by
\* the data-stream creation returns success and leaves the template and the
\* data stream as they were; after a successful call that left the data
\* stream in place, a further call whose requests are all answered as the
\* backend's state has it is such a call.
C11_ExistingTargetIsSuccess ==
    \A k \in 1..Len(setupCalls) :
        LET c == setupCalls[k] IN
          /\ (c.before.template /\ c.answer = "already_exists")
                => (c.ok /\ SameTarget(c.after, c.before))
          /\ (k > 1 /\ setupCalls[k - 1].ok /\ setupCalls[k - 1].after.stream
                /\ c.fault = "none")
                => (c.answer = "already_exists" /\ c.ok /\ c.after = c.before)

\* a first call created the data stream, the second one found it
C11_Witness ==
    /\ Len(setupCalls) >= 2
    /\ ~setupCalls[1].before.stream /\ setupCalls[1].answer = "created" /\ setupCalls[1].ok
    /\ setupCalls[2].answer = "already_exists" /\ setupCalls[2].ok
    /\ setupCalls[2].after = setupCalls[1].after

(***************************************************************************)
(* Further properties of the benchmark run.                                *)
(***************************************************************************)
\* the definition carries the flag, whatever the loop makes of it
FlaggedSkip(q) == "skip" \in DOMAIN q /\ q.skip = TRUE

AtSkipped == bpc = "main" /\ qi \in 1..Len(QUERIES) /\ FlaggedSkip(QUERIES[qi])

\* C12: a definition flagged skip has no request issued to either backend,
\* no latency recorded and no summary reported, and the for loop passes
\* from it to the next position of the catalogue.
C12_SkippedRunsNothing ==
    /\ [](\A k \in 1..Len(QUERIES) : FlaggedSkip(QUERIES[k]) =>
             /\ calls[k] = 0
             /\ \A j \in 1..Len(summaries) : summaries[j].query # QUERIES[k].name)
    /\ [](AtSkipped => (prom_lats = <<>> /\ es_lats = <<>> /\ outstanding = 0))
    /\ [][AtSkipped => (/\ qi' = qi + 1
                        /\ bpc' = "main"
                        /\ UNCHANGED <<prom_lats, es_lats, calls, summaries, outstanding,
                                       req, printed>>)]_vars

\* the loop is past the skipped fourth definition, after three executed ones
C12_Witness ==
    /\ qi = 5 /\ FlaggedSkip(QUERIES[4])
    /\ calls = <<2 * NUM_RUNS, 2 * NUM_RUNS, 2 * NUM_RUNS, 0>>
    /\ Len(summaries) = 6

(***************************************************************************)
(* Properties of summarize.                                                *)
(***************************************************************************)
\* the value at 0-based rank r of the ascending order of seq: at most r
\* elements are smaller and more than r are not larger
AtRank(seq, r) ==
    CHOOSE v \in Range(seq) :
        /\ Cardinality({i \in 1..Len(seq) : seq[i] < v}) <= r
        /\ Cardinality({i \in 1..Len(seq) : seq[i] <= v}) > r

\* floor(0.95 * (n - 1))
Floor95(n) == CHOOSE k \in 0..(n - 1) : 100 * k <= 95 * (n - 1) /\ 95 * (n - 1) < 100 * (k + 1)

\* twice the median
TwiceMedian(seq) ==
    LET n == Len(seq) IN
    IF n % 2 = 1 THEN 2 * AtRank(seq, (n - 1) \div 2)
    ELSE AtRank(seq, n \div 2 - 1) + AtRank(seq, n \div 2)

Summarized == reported # NoLine

\* C13: summarize reports the median as p50 and, as p95, the element at index
\* floor(0.95 * (n - 1)) of the ascending order, whatever the order of the
\* input; any ordering of 10, 20, 30, 40, 50 gives p50 = 30 and p95 = 40.
C13_MedianAndNearestRank ==
    Summarized =>
        /\ reported.p50x2 = TwiceMedian(lat_arg)
        /\ reported.p95 = AtRank(lat_arg, Floor95(Len(lat_arg)))
        /\ (Len(lat_arg) = 5 /\ Range(lat_arg) = {10, 20, 30, 40, 50})
              => (reported.p50x2 = 2 * 30 /\ reported.p95 = 40)

\* the five latencies of the example, in descending order
C13_Witness == Summarized /\ lat_arg = <<50, 40, 30, 20, 10>> /\ reported.p95 = 40

(***************************************************************************)
(* Properties of parse_duration.                                           *)
(***************************************************************************)
AllDigits(chars) ==
    chars # <<>> /\ \A k \in 1..Len(chars) : chars[k] \in {"0", "1", "2", "3", "4", "5", "6", "7", "8", "9"}

RECURSIVE Pow10(_)
Pow10(n) == IF n = 0 THEN 1 ELSE 10 * Pow10(n - 1)

DigitOf(ch) ==
    CASE ch = "0" -> 0 [] ch = "1" -> 1 [] ch = "2" -> 2 [] ch = "3" -> 3 [] ch = "4" -> 4
      [] ch = "5" -> 5 [] ch = "6" -> 6 [] ch = "7" -> 7 [] ch = "8" -> 8 [] ch = "9" -> 9

RECURSIVE Decimal(_)
Decimal(chars) ==
    IF chars = <<>> THEN 0
    ELSE DigitOf(Head(chars)) * Pow10(Len(chars) - 1) + Decimal(Tail(chars))

LastChar(chars) == chars[Len(chars)]
Front(chars) == SubSeq(chars, 1, Len(chars) - 1)

Factor(unit) ==
    CASE unit \in {"s", "S"} -> 1 [] unit \in {"m", "M"} -> 60
      [] unit \in {"h", "H"} -> 3600 [] unit \in {"d", "D"} -> 86400

HasUnit(chars) == LastChar(chars) \in {"s", "m", "h", "d"} /\ AllDigits(Front(chars))
HasUpperUnit(chars) == LastChar(chars) \in {"S", "M", "H", "D"} /\ AllDigits(Front(chars))

ParseDone == parsed # NoParse

\* C14 as stated: <int><unit> gives int times the unit's seconds, and a
\* result is given for a string without one of the four units only when
\* the string is purely numeric.
C14_SecondsOnlyWhenNumeric ==
    ParseDone =>
        /\ HasUnit(dur_arg) =>
              (parsed.ok /\ parsed.seconds = Decimal(Front(dur_arg)) * Factor(LastChar(dur_arg)))
        /\ (parsed.ok /\ ~HasUnit(dur_arg)) => AllDigits(dur_arg)

\* C14: <int><unit> with unit s, m, h or d, in either case, gives int times
\* 1, 60, 3600 or 86400; a purely numeric string gives its value; <int>
\* followed by any other character that is no digit gives int too; every
\* other string raises. "5m" gives 300, "1h" 3600 and "90" 90.
C14_ParseDuration ==
    ParseDone =>
        /\ (HasUnit(dur_arg) \/ HasUpperUnit(dur_arg)) =>
              (parsed.ok /\ parsed.seconds = Decimal(Front(dur_arg)) * Factor(LastChar(dur_arg)))
        /\ AllDigits(dur_arg) => (parsed.ok /\ parsed.seconds = Decimal(dur_arg))
        /\ (AllDigits(Front(dur_arg)) /\ ~AllDigits(dur_arg)
              /\ ~HasUnit(dur_arg) /\ ~HasUpperUnit(dur_arg))
              => (parsed.ok /\ parsed.seconds = Decimal(Front(dur_arg)))
        /\ (~AllDigits(dur_arg) /\ ~AllDigits(Front(dur_arg))) => ~parsed.ok
        /\ dur_arg = <<"5", "m">> => parsed.seconds = 300
        /\ dur_arg = <<"1", "h">> => parsed.seconds = 3600
        /\ dur_arg = <<"9", "0">> => parsed.seconds = 90

\* "5m" was parsed to 300
C14_Witness == ParseDone /\ dur_arg = <<"5", "m">> /\ parsed = [ok |-> TRUE, seconds |-> 300]

(***************************************************************************)
(* Properties of the sample value.                                         *)
(***************************************************************************)
Computed == value_out # NoValue

\* C15: the sample value is never negative; for status code "200" it lies
\* in [90, 110] and is the centre 100 plus the noise, for any other status
\* code it lies in [0, 15] and is the centre 5 plus the noise, floored at 0.
C15_ValueRanges ==
    Computed =>
        /\ value_out >= 0
        /\ value_arg.labels.status_code = "200" =>
              (value_out >= 90 /\ value_out <= 110 /\ value_out = 100 + value_arg.noise)
        /\ value_arg.labels.status_code # "200" =>
              /\ value_out >= 0 /\ value_out <= 15
              /\ value_out = IF 5 + value_arg.noise < 0 THEN 0 ELSE 5 + value_arg.noise

\* a 500 series with the lowest noise draw: 5 - 10 is floored at 0
C15_Witness ==
    /\ Computed
    /\ value_arg.labels.status_code = "500" /\ value_arg.noise = -10
    /\ value_out = 0

(***************************************************************************)
(* Properties of the requests made of one definition.                      *)
(***************************************************************************)
HasRange(q) == "range_duration" \in DOMAIN q
HasStep(q) == "step" \in DOMAIN q
BothRequestsMade == prom_req.req # NoRequest /\ es_req # NoRequest
Ranged(r, seconds) == r.kind = "query_range" /\ r.timeout = seconds
Instant(r, seconds) == r.kind = "query" /\ r.timeout = seconds

PromAnswered == bpc = "prom_wait" /\ bpc' = "prom_sleep"
EsAnswered == bpc = "es_wait" /\ bpc' = "es_sleep"

\* C17: the retained result of a query/backend pair is the body of
\* execution 0, set when that execution answers 200; no later execution
\* sets or replaces it, so that it stays empty after a failed execution 0.
C17_OnlyFirstExecutionRetained ==
    /\ [](prom_result # NoResult => prom_result = [backend |-> "prom", run |-> 0])
    /\ [](es_result # NoResult => es_result = [backend |-> "es", run |-> 0])
    /\ [][PromAnswered =>
            prom_result' = IF run = 0 /\ lastResp'.status = 200
                           THEN [backend |-> "prom", run |-> 0] ELSE prom_result]_vars
    /\ [][EsAnswered =>
            es_result' = IF run = 0 /\ lastResp'.status = 200
                         THEN [backend |-> "es", run |-> 0] ELSE es_result]_vars
    /\ [][(bpc \in {"prom_send", "prom_wait", "prom_sleep"} /\ run > 0
              /\ prom_result = NoResult) => prom_result' = NoResult]_vars
    /\ [][(bpc \in {"es_send", "es_wait", "es_sleep"} /\ run > 0
              /\ es_result = NoResult) => es_result' = NoResult]_vars

\* execution 0 of bench_prom failed, execution 1 answered 200, and the
\* retained result is still empty
C17_Witness ==
    /\ bpc = "prom_sleep" /\ run = 1
    /\ lastResp.status = 200
    /\ prom_result = NoResult

RequestIssued == outstanding' > outstanding
SleepPositions == {"prom_sleep", "es_sleep"}
SendPositions == {"prom_send", "es_send"}

Summarized2(k) ==
    /\ \E j \in 1..Len(summaries) :
          summaries[j].query = QUERIES[k].name /\ summaries[j].backend = "Prometheus"
    /\ \E j \in 1..Len(summaries) :
          summaries[j].query = QUERIES[k].name /\ summaries[j].backend = "Elasticsearch ES|QL"

\* C18: at most one request is outstanding; a request goes out only with
\* none outstanding; every answered execution is followed by the sleep, and
\* a request position is entered only from the loop head or from a sleep;
\* bench_esql sends only after NUM_RUNS answered metrics executions; a
\* definition has requests only when every earlier definition that is not
\* skipped has had all its 2 * NUM_RUNS executions and both its summaries.
C18_StrictlySequential ==
    /\ [](outstanding \in {0, 1})
    /\ [][RequestIssued => (outstanding = 0 /\ bpc \in SendPositions)]_vars
    /\ [][(PromAnswered \/ EsAnswered) => bpc' \in SleepPositions]_vars
    /\ [][(bpc \in SleepPositions) => (~RequestIssued /\ calls' = calls)]_vars
    /\ [][(bpc' = "prom_send" /\ bpc # "prom_send") => bpc \in {"main", "prom_sleep"}]_vars
    /\ [][(bpc' = "es_send" /\ bpc # "es_send") => bpc \in SleepPositions]_vars
    /\ [](bpc \in {"es_send", "es_wait", "es_sleep"} =>
             (Len(prom_lats) = NUM_RUNS /\ calls[qi] >= NUM_RUNS))
    /\ [](bpc = "es_send" => (calls[qi] = NUM_RUNS + run /\ outstanding = 0))
    /\ [](bpc = "prom_send" => (calls[qi] = run /\ outstanding = 0))
    /\ [](\A k \in 1..Len(QUERIES) : calls[k] > 0 =>
             \A j \in 1..(k - 1) : ~FlaggedSkip(QUERIES[j]) =>
                 (calls[j] = 2 * NUM_RUNS /\ Summarized2(j)))

\* the first document-backend request of the second definition is out,
\* after its five metrics executions and the ten of the first definition
C18_Witness ==
    /\ qi = 2 /\ bpc = "es_wait" /\ run = 0
    /\ outstanding = 1
    /\ calls[1] = 2 * NUM_RUNS /\ calls[2] = NUM_RUNS + 1
    /\ Len(summaries) = 2

(***************************************************************************)
(* Properties of the ticks and of the gauge table.                         *)
(***************************************************************************)
WriteOutstanding == \E i \in 1..Len(postLog) : postLog[i].code = -1
WriteAnswered == pc \in {"verify", "tick_sleep"}
LastPost == postLog[Len(postLog)]

\* C19 as stated: when a bulk write takes longer than the tick interval,
\* the next tick has begun while that write was outstanding.
C19_TicksOverlap ==
    (WriteAnswered /\ now - ts > TICK_SECONDS) => tick > LastPost.tick

\* C19: the sleep after a tick is TICK_SECONDS whatever the write took, and
\* ticks never overlap: a write is outstanding only while the loop waits for
\* its answer, and a tick's build and POST begin only with no write
\* outstanding, so that a tick starts the write's duration plus
\* TICK_SECONDS after the one before.
C19_FixedSleepNoOverlap ==
    /\ [][(pc = "tick_sleep" /\ pc' # pc) => (now' = now + TICK_SECONDS /\ pc' = "tick_start")]_vars
    /\ [](WriteOutstanding => (pc = "post_wait" /\ LastPost.code = -1 /\ LastPost.tick = tick))
    /\ [](\A i \in 1..(Len(postLog) - 1) : postLog[i].code # -1)
    /\ [][(tick' # tick \/ BulkIssued) => ~WriteOutstanding]_vars
    /\ [][(pc = "post_wait" /\ pc' # pc) => (tick' = tick /\ ts' = ts /\ now' - ts >= now - ts)]_vars
    /\ [](WriteAnswered => tick = LastPost.tick)

\* the first write took two seconds, longer than the tick interval, and the
\* second tick's write is out three seconds after the first tick began
C19_Witness ==
    /\ Len(postLog) = 2 /\ pc = "post_wait"
    /\ postLog[1].code # -1
    /\ postLog[2].ts = postLog[1].ts + 2 + TICK_SECONDS

AllSeries == Range(generate_series(cfg))
GaugesOfTick(t) == \A l \in AllSeries : l \in DOMAIN gauges /\ gauges[l].tick = t
MixedScrape(sc) == \E a, b \in DOMAIN sc : sc[a] # sc[b]
Scraping == scraped' # scraped

\* C20: when the bulk POST goes out the gauge table holds this tick's value
\* for every Label Set; the answer to the POST, an exception and a status
\* >= 300 included, leaves the table as it is, so that after a failed tick
\* the table holds that tick's values and the values of its rejected
\* documents; a scrape reads each Label Set at this tick or the one before,
\* and reads both kinds together only while a build is running.
C20_GaugesAheadOfWrite ==
    /\ [][BulkIssued => (GaugesOfTick(tick) /\ gauges' = gauges)]_vars
    /\ [][(pc = "post_wait" /\ pc' # pc) => gauges' = gauges]_vars
    /\ []((WriteAnswered /\ BulkFailed(LastPost.code)) =>
             /\ GaugesOfTick(LastPost.tick)
             /\ \A i \in 1..Len(BodyLines(body)) :
                  IsDocLine(BodyLines(body)[i]) =>
                     gauges[DocLabels(BodyLines(body)[i][1])].value
                        = BodyLines(body)[i][1].http_requests_qps)
    /\ [][Scraping =>
            /\ scraped' = Exposed(gauges)
            /\ \A l \in DOMAIN scraped' : scraped'[l] \in {tick - 1, tick}
            /\ MixedScrape(scraped') => pc = "build"]_vars

\* the second tick's POST failed; the table holds the second tick's values,
\* and the scrape taken during its build read one Label Set of each tick
C20_Witness ==
    /\ pc = "tick_sleep" /\ tick = 2
    /\ BulkFailed(LastPost.code)
    /\ Cardinality(AllSeries) = 2
    /\ GaugesOfTick(2)
    /\ MixedScrape(scraped)

(***************************************************************************)
(* Properties of the post-write verification.                              *)
(***************************************************************************)
Accepted(code) == code > 0 /\ code < 300
VerifyEntered == pc' = "verify" /\ pc # "verify"
VerifyEnded == pc = "verify" /\ pc' # "verify"
AcceptedPosts == {i \in 1..Len(postLog) : Accepted(postLog[i].code)}

\* C21: the verification runs at most once; it is entered from the answer
\* to the first bulk write that returns a status below 300, so never from a
\* failed write; first_batch is cleared on entering it and never set again;
\* however it ends, an error status and an exception included, the loop
\* goes on to the tick sleep and the next tick.
C21_VerifyOnceAfterFirstAccepted ==
    /\ [](verifyRuns <= 1)
    /\ [](first_batch <=> AcceptedPosts = {})
    /\ [](verifyRuns = 1 => (~first_batch /\ AcceptedPosts # {}))
    /\ [][VerifyEntered =>
            /\ pc = "post_wait"
            /\ Accepted(postLog'[Len(postLog')].code)
            /\ AcceptedPosts' = {Len(postLog')}
            /\ first_batch /\ ~first_batch'
            /\ verifyRuns = 0]_vars
    /\ [][(pc = "post_wait" /\ pc' # pc /\ ~VerifyEntered) =>
            (BulkFailed(postLog'[Len(postLog')].code) \/ ~first_batch)]_vars
    /\ [][VerifyEnded =>
            /\ verifyOutcome' \in VerifyOutcomes
            /\ verifyRuns' = verifyRuns + 1
            /\ pc' = "tick_sleep"
            /\ first_batch' = first_batch]_vars
    /\ [][~first_batch => ~first_batch']_vars
    /\ [][(pc = "tick_sleep" /\ pc' # pc) => pc' = "tick_start"]_vars

\* the first tick's write failed and was not verified; the second tick's
\* write was accepted and its verification ended in an exception
C21_Witness ==
    /\ pc = "tick_sleep" /\ tick = 2
    /\ BulkFailed(postLog[1].code) /\ Accepted(postLog[2].code)
    /\ verifyRuns = 1 /\ verifyOutcome = "exception"
    /\ ~first_batch

====
